---- MODULE Spec2Model ----
(***************************************************************************)
(* Model of the job orchestration core of lumiply-server (src/main.py):    *)
(* the in-memory job store job_status, the intake upload_image, the        *)
(* background task send_to_colab (one per job, seven sequential colour     *)
(* requests), the status query get_job_status and the callback endpoint    *)
(* colab_callback.                                                         *)
(*                                                                         *)
(* The server runs on one asyncio event loop: the code between two awaits  *)
(* runs without interruption, so every action below is the code from one   *)
(* await to the next.  Python dicts are functions whose DOMAIN is the set  *)
(* of keys present; None is the string "None".                             *)
(***************************************************************************)
EXTENDS Integers, Sequences, FiniteSets, TLC

(* ---------------------------- bounds ----------------------------------- *)

\* Jobs submitted in a behaviour without callbacks.
MaxJobs == 2

\* Callbacks ingested for the job of a behaviour with one job.
MaxCallbacks == 2

\* Identifiers uuid4 draws from: one more than the jobs created, so that an
\* identifier without a record always exists.
JobIds == 1 .. (MaxJobs + 1)

\* What the environment does in one behaviour: the jobs submitted, the
\* callbacks ingested, whether requests that leave the store as it is
\* (status queries, rejected uploads and callbacks) are made, and whether
\* the inference service gives any answer, plain ones only (a result
\* with the URL, or a timeout), or none in time.
\*   - one job, the service answering anything, callbacks racing the
\*     pipeline;
\*   - several jobs running side by side;
\*   - one job with a callback and requests of every kind at any moment;
\*   - several jobs side by side with a callback and requests of every
\*     kind at any moment, the service timing out.
Budgets ==
    { [jobs |-> 1, callbacks |-> MaxCallbacks, queries |-> FALSE, answers |-> "any"],
      [jobs |-> MaxJobs, callbacks |-> 0, queries |-> FALSE, answers |-> "plain"],
      [jobs |-> 1, callbacks |-> 1, queries |-> TRUE, answers |-> "plain"],
      [jobs |-> MaxJobs, callbacks |-> 1, queries |-> TRUE, answers |-> "timeout"] }

(* --------------------------- values ------------------------------------ *)

None == "None"

\* A colour sequence that starts with red and ends with white.
color_sequence_white_last ==
    <<"red", "orange", "yellow", "green", "blue", "purple", "white">>

\* color_sequence of send_to_colab, keys only.
color_sequence == <<"white", "red", "orange", "yellow", "green", "blue", "purple">>

NumColors == Len(color_sequence)

Colors == {color_sequence[i] : i \in 1 .. NumColors}

\* The URL the inference service returns for a colour.
ColabUrl(color) == "colab/" \o color

\* The input_image_url the inference service may put into its answer to
\* the request for a colour; the value tells which answer it came from.
InputUrls(color) == {"in/" \o color}

\* The URL a callback payload carries for a colour.
CallbackUrl(color) == "cb/" \o color

\* A dict with one key, and the empty dict.
EmptyDict == <<>>

Has(d, k) == k \in DOMAIN d

\* dict.get(k, default)
Get(d, k, default) == IF Has(d, k) THEN d[k] ELSE default

\* d[k] = v on a dict
Put(d, k, v) == (k :> v) @@ d

(* ----------------------- the initial record ---------------------------- *)

\* upload_image, the record written at intake.
NewRecord ==
    [status |-> "pending", progress |-> 0, message |-> "waiting"]

(* ------------------------ JSON values ---------------------------------- *)

\* A JSON value that is an object, a non-empty string or list, or null.
JObj(f) == [t |-> "obj", f |-> f]

JStr == [t |-> "str"]

JNull == [t |-> "null"]

\* Python truthiness: None and {} are falsy, a non-empty string is truthy.
Truthy(j) ==
    CASE j.t = "null" -> FALSE
      [] j.t = "str"  -> TRUE
      [] j.t = "obj"  -> DOMAIN j.f # {}

\* isinstance(j, dict)
IsDict(j) == j.t = "obj"

\* An optional key of a dict: <<>> leaves the key out, <<v>> sets it to v.
Opt(k, o) == IF Len(o) = 0 THEN EmptyDict ELSE (k :> o[1])

(* ---------------------- callback payloads ------------------------------ *)

\* The values of the payload's result key: null, a non-object, an object
\* with images and/or input_image_url.
CallbackResults ==
    { JNull, JStr,
      JObj("images" :> ("white" :> CallbackUrl("white"))),
      JObj("images" :> ("purple" :> CallbackUrl("purple"))),
      JObj(("images" :> ("white" :> CallbackUrl("white")))
           @@ ("input_image_url" :> "in/b")) }

\* The bodies colab_callback is called with (payload: dict = Body(...)).
Payloads ==
    { Opt("status", s) @@ Opt("result", r) @@ Opt("error", e) :
        s \in {<<>>, <<"completed">>, <<"processing">>, <<"bogus">>},
        r \in {<<>>} \cup {<<x>> : x \in CallbackResults},
        e \in {<<>>, <<"x">>} }
    \cup { ("message" :> m) @@ ("status" :> "completed") : m \in {"", "from callback"} }

\* colab_callback: raw_result = payload.get("result") or {}
RawResult(payload) ==
    IF Has(payload, "result") /\ Truthy(payload["result"])
    THEN payload["result"]
    ELSE JObj(EmptyDict)

\* colab_callback: raw_result.get(...) raises AttributeError on a value
\* that is no dict; the handler answers 500.
CallbackRaises(payload) == ~IsDict(RawResult(payload))

\* colab_callback: message = payload.get("message") or <default>
CallbackMessage(payload) ==
    IF Has(payload, "message") /\ payload["message"] # ""
    THEN payload["message"]
    ELSE "generation finished"

\* colab_callback: the result written to the record.
CallbackResult(payload) ==
    [images          |-> Get(RawResult(payload).f, "images", EmptyDict),
     input_image_url |-> Get(RawResult(payload).f, "input_image_url", None)]

\* A callback that adds its images to those the record holds.
CallbackRecord_merging(rec, payload) ==
    LET r1 == Put(Put(Put(Put(rec,
                  "status", Get(payload, "status", "completed")),
                  "progress", 100),
                  "message", CallbackMessage(payload)),
                  "result",
                  [images |-> CallbackResult(payload).images
                                 @@ (IF Has(rec, "result") THEN rec["result"].images
                                     ELSE EmptyDict),
                   input_image_url |-> CallbackResult(payload).input_image_url])
    IN  IF Has(payload, "error")
        THEN Put(Put(r1, "error", payload["error"]), "status", "failed")
        ELSE r1

\* A callback that leaves the progress where it is.
CallbackRecord_no_progress(rec, payload) ==
    LET r1 == Put(Put(Put(rec,
                  "status", Get(payload, "status", "completed")),
                  "message", CallbackMessage(payload)),
                  "result", CallbackResult(payload))
    IN  IF Has(payload, "error")
        THEN Put(Put(r1, "error", payload["error"]), "status", "failed")
        ELSE r1

\* colab_callback: the record after the writes of lines 528-539.
CallbackRecord(rec, payload) ==
    LET r1 == Put(Put(Put(Put(rec,
                  "status", Get(payload, "status", "completed")),
                  "progress", 100),
                  "message", CallbackMessage(payload)),
                  "result", CallbackResult(payload))
    IN  IF Has(payload, "error")
        THEN Put(Put(r1, "error", payload["error"]), "status", "failed")
        ELSE r1

(* ------------------- the inference service's answers ------------------- *)

\* The images value of a result object in a response to the request for
\* color_key: left out, no dict, a dict without the colour, with an empty
\* URL for it, with its URL.
ResponseImages(color_key) ==
    { <<>>,
      <<JStr>>,
      <<JObj(EmptyDict)>>,
      <<JObj(color_key :> "")>>,
      <<JObj(color_key :> ColabUrl(color_key))>> }

\* The result objects of a response to the request for color_key.
ResponseResults(color_key) ==
    { JObj(Opt("images", i) @@ Opt("image_url", u) @@ Opt("input_image_url", v)) :
        i \in ResponseImages(color_key),
        u \in {<<>>, <<ColabUrl(color_key)>>},
        v \in {<<>>} \cup {<<x>> : x \in InputUrls(color_key)} }

\* What client.post gives for the request for color_key: an exception of
\* httpx, a response that is not 200, a 200 response whose body is no JSON,
\* no dict, a dict without result, with a result that is null or no dict,
\* or with a result object.
Responses(color_key) ==
    { [kind |-> "exc", exc |-> e] :
        e \in {"TimeoutException", "ConnectError", "RequestError"} }
    \cup { [kind |-> "http", status_code |-> 500, raw |-> JStr] }
    \cup { [kind |-> "http", status_code |-> 200, raw |-> r] :
             r \in {[t |-> "invalid"], JStr, JObj(EmptyDict),
                    JObj("result" :> JNull), JObj("result" :> JStr)}
                   \cup {JObj("result" :> x) : x \in ResponseResults(color_key)} }

\* The plain answers among them: a result object with the URL of the
\* colour and an input_image_url, and a timeout.
PlainResponses(color_key) ==
    { [kind |-> "exc", exc |-> "TimeoutException"],
      [kind |-> "http", status_code |-> 200,
       raw |-> JObj("result" :>
                 JObj(("images" :> JObj(color_key :> ColabUrl(color_key)))
                      @@ ("input_image_url" :> "in/" \o color_key)))] }

\* The service does not answer within COLAB_TIMEOUT.
TimeoutResponses(color_key) == { [kind |-> "exc", exc |-> "TimeoutException"] }

\* The answers the service may give in a behaviour of the given kind.
Answers(kind, color_key) ==
    CASE kind = "any"   -> Responses(color_key)
      [] kind = "plain" -> PlainResponses(color_key)
      [] OTHER          -> TimeoutResponses(color_key)

\* send_to_colab, lines 333-339: the URL of this colour in the result
\* object, None when there is none.
ImageUrl(inner, color_key) ==
    LET images_map == Get(inner, "images", JObj(EmptyDict))
        from_map   == IF IsDict(images_map)
                      THEN Get(images_map.f, color_key, None)
                      ELSE None
    IN  IF from_map # None /\ from_map # ""
        THEN from_map
        ELSE Get(inner, "image_url", None)

\* send_to_colab, lines 298-347 and 366-372: what one answer leads to.
\* "raised": an exception leaves the loop; "failed": the step writes the
\* failure and returns; "merged": the step has a URL to merge.
StepOutcome(resp, color_key, input_image_url) ==
    IF resp.kind = "exc"
    THEN [kind |-> "raised", exc |-> resp.exc]
    ELSE IF resp.status_code # 200
    THEN [kind |-> "failed", error |-> "status " \o color_key,
          message |-> "failed " \o color_key]
    ELSE IF resp.raw.t = "invalid"
    THEN [kind |-> "raised", exc |-> "Exception"]
    ELSE LET inner_result == IF IsDict(resp.raw)
                             THEN Get(resp.raw.f, "result", JNull)
                             ELSE JNull
         IN  IF ~Truthy(inner_result) \/ ~IsDict(inner_result)
             THEN [kind |-> "failed", error |-> "no result " \o color_key,
                   message |-> "format error " \o color_key]
             ELSE LET url == ImageUrl(inner_result.f, color_key)
                  IN  IF url = None \/ url = ""
                      THEN [kind |-> "failed", error |-> "no url " \o color_key,
                            message |-> "no url " \o color_key]
                      ELSE [kind |-> "merged", url |-> url,
                            input_image_url |->
                                IF input_image_url = None
                                THEN Get(inner_result.f, "input_image_url", None)
                                ELSE input_image_url]

(* --------------------- the writes of send_to_colab --------------------- *)

\* A start that writes message and progress only.
StartRecord_no_status(rec) ==
    Put(Put(rec, "message", "sending"), "progress", 0)

\* Lines 243-245.
StartRecord(rec) ==
    Put(Put(Put(rec, "status", "processing"), "message", "sending"), "progress", 0)

\* A base progress with the sign of the step's share turned round.
base_progress_minus(idx) == 10 - idx * 10

\* Line 280.
base_progress(idx) == 10 + idx * 10

\* A loop head that writes the message and leaves the progress.
LoopHeadRecord_message_only(rec, idx) ==
    Put(rec, "message", "creating " \o color_sequence[idx + 1])

\* Lines 280-282: the head of the loop for the colour at idx (from 0).
LoopHeadRecord(rec, idx) ==
    Put(Put(rec, "message", "creating " \o color_sequence[idx + 1]),
        "progress", base_progress(idx))

\* The progress of a finished step, counted from the step's own index.
completed_progress_short(idx) == 10 + idx * 10

\* Line 362.
completed_progress(idx) == 10 + (idx + 1) * 10

\* A partial result that holds the new colour only.
MergeResult_fresh(rec, color_key, image_url, input_image_url) ==
    [images          |-> (color_key :> image_url),
     input_image_url |-> input_image_url]

\* Lines 353-359: the partial result, merged into what the record holds.
MergeResult(rec, color_key, image_url, input_image_url) ==
    LET prev_result == IF Has(rec, "result") THEN rec["result"]
                       ELSE [images |-> EmptyDict]
        prev_images == prev_result.images
    IN  [images          |-> Put(prev_images, color_key, image_url),
         input_image_url |-> input_image_url]

\* Lines 353-364: the record after a step that got a URL.
MergeRecord(rec, idx, image_url, input_image_url) ==
    Put(Put(Put(rec,
        "result", MergeResult(rec, color_sequence[idx + 1], image_url, input_image_url)),
        "progress", completed_progress(idx)),
        "message", "created " \o color_sequence[idx + 1])

\* A failure write that discards the partial result.
FailRecord_clearing(rec, error, message) ==
    Put(Put(Put(Put(rec, "status", "failed"), "error", error), "message", message),
        "result", [images |-> EmptyDict, input_image_url |-> None])

\* Lines 311-313, 323-325, 344-346 and the handlers 384-407.
FailRecord(rec, error, message) ==
    Put(Put(Put(rec, "status", "failed"), "error", error), "message", message)

\* Lines 384-407: the error each handler records for an exception.
HandlerError(exc) ==
    CASE exc = "TimeoutException" -> "timeout"
      [] exc = "ConnectError"     -> "connect failed"
      [] exc = "RequestError"     -> "request error"
      [] OTHER                    -> "invalid json"

\* Handlers that log the exception and write nothing to the record.
ExceptRecord_silent(rec, exc) == rec

\* Lines 366-372 and 384-407: an exception leaves the loop and the client
\* is closed, nothing is written on the way; the handler that matches it
\* records the failure.
ExceptRecord(rec, exc) == FailRecord(rec, HandlerError(exc), HandlerError(exc))

\* A final write that leaves the result the record holds.
CompletedRecord_keeping_result(rec, aggregated_images, input_image_url) ==
    Put(Put(Put(rec, "status", "completed"), "progress", 100),
        "message", "all colours created")

\* A final write that leaves the progress where the last step put it.
CompletedRecord_no_progress(rec, aggregated_images, input_image_url) ==
    Put(Put(Put(rec, "status", "completed"),
        "message", "all colours created"),
        "result", [images |-> aggregated_images,
                   input_image_url |-> input_image_url])

\* Lines 375-382: the final write.
CompletedRecord(rec, aggregated_images, input_image_url) ==
    Put(Put(Put(Put(rec, "status", "completed"), "progress", 100),
        "message", "all colours created"),
        "result", [images |-> aggregated_images,
                   input_image_url |-> input_image_url])

(* ------------------- the requests of send_to_colab --------------------- *)

\* The calls of client.post made for a job: the colours asked for, in the
\* order of the calls, and the number of calls that have not returned.
NoRequests == [log |-> <<>>, in_flight |-> 0]

\* Lines 298-302: client.post is called for color_key and the task
\* suspends.
SendRequest(req, color_key) ==
    [log |-> Append(req.log, color_key), in_flight |-> req.in_flight + 1]

\* Lines 298-302: the call returns a response or raises.
ReceiveResponse(req) == [req EXCEPT !.in_flight = @ - 1]

(* ------------------------------ state ---------------------------------- *)

VARIABLES
    job_status,   \* the dict job_status: job id -> record
    task,         \* job id -> the send_to_colab task of the job: where it
                  \* is suspended (pc) and its locals
    response,     \* what the handler that ran in this step returned
    callbacks,    \* job id -> the callbacks ingested for the job so far
    requests,     \* job id -> the calls of client.post made for the job
    budget        \* what the environment does in this behaviour

vars == <<job_status, task, response, callbacks, requests, budget>>

NoResponse == [op |-> "none", job_id |-> 0, status_code |-> 0]

Init ==
    /\ job_status = EmptyDict
    /\ task = EmptyDict
    /\ response = NoResponse
    /\ callbacks = EmptyDict
    /\ requests = EmptyDict
    /\ budget \in Budgets

RECURSIVE Total(_, _)
\* The sum of f over the set S of keys.
Total(f, S) ==
    IF S = {} THEN 0
    ELSE LET k == CHOOSE x \in S : TRUE IN f[k] + Total(f, S \ {k})

\* The callbacks ingested so far.
Ingested == Total(callbacks, DOMAIN callbacks)

(* ------------------------------ intake --------------------------------- *)

\* An identifier source that may repeat an identifier it gave before.
uuid4_repeating(store) == JobIds

\* uuid.uuid4(): an identifier that was not drawn before (a collision of
\* two version-4 UUIDs is left out).  The code never orders or compares
\* identifiers, so the least unused one stands for any of them.
uuid4(store) ==
    {id \in JobIds \ DOMAIN store : \A other \in JobIds \ DOMAIN store : id <= other}

\* send_to_colab as scheduled by background_tasks.add_task: not started.
NewTask ==
    [pc |-> "scheduled", idx |-> 0, aggregated_images |-> EmptyDict,
     input_image_url |-> None]

\* upload_image, lines 102-138: the file is saved, the record is created,
\* the task is scheduled.
upload_image(job_id) ==
    /\ job_id \in uuid4(job_status)
    /\ Cardinality(DOMAIN job_status) < budget.jobs
    /\ job_status' = Put(job_status, job_id, NewRecord)
    /\ task' = Put(task, job_id, NewTask)
    /\ callbacks' = Put(callbacks, job_id, 0)
    /\ requests' = Put(requests, job_id, NoRequests)
    /\ response' = [op |-> "upload", job_id |-> job_id, status_code |-> 200]
    /\ UNCHANGED budget

\* upload_image, lines 140-145: reading or saving the file raised.
upload_image_error ==
    /\ budget.queries
    /\ response' = [op |-> "upload", job_id |-> 0, status_code |-> 500]
    /\ UNCHANGED <<job_status, task, callbacks, requests, budget>>

(* --------------------------- status query ------------------------------ *)

\* A membership test that takes every id for known.
Known_always(store, job_id) == TRUE

\* Lines 503 and 516: job_id in job_status
Known(store, job_id) == job_id \in DOMAIN store

\* get_job_status, lines 503-508.  Indexing the dict with a key it does
\* not hold raises KeyError, which the framework answers with 500.
StatusAnswer(store, job_id) ==
    IF ~Known(store, job_id)
    THEN [status_code |-> 404, body |-> EmptyDict]
    ELSE IF job_id \notin DOMAIN store
    THEN [status_code |-> 500, body |-> EmptyDict]
    ELSE [status_code |-> 200, body |-> store[job_id]]

get_job_status(job_id) ==
    /\ budget.queries
    /\ response' = [op |-> "status", job_id |-> 0,
                    status_code |-> StatusAnswer(job_status, job_id).status_code]
    /\ UNCHANGED <<job_status, task, callbacks, requests, budget>>

(* ----------------------------- callback -------------------------------- *)

\* colab_callback, lines 516-518: no record.
colab_callback_unknown(job_id) ==
    /\ budget.queries
    /\ ~Known(job_status, job_id)
    /\ response' = [op |-> "callback", job_id |-> 0, status_code |-> 404]
    /\ UNCHANGED <<job_status, task, callbacks, requests, budget>>

\* colab_callback, lines 544-546: the handler raised before its first
\* write (the result is no dict, or the record is missing).
colab_callback_error(job_id, payload) ==
    /\ budget.queries
    /\ Known(job_status, job_id)
    /\ CallbackRaises(payload) \/ job_id \notin DOMAIN job_status
    /\ response' = [op |-> "callback", job_id |-> 0, status_code |-> 500]
    /\ UNCHANGED <<job_status, task, callbacks, requests, budget>>

\* A callback that writes what it ingests to every record of the store.
colab_callback_broadcast(job_id, payload) ==
    /\ Known(job_status, job_id)
    /\ ~CallbackRaises(payload)
    /\ Ingested < budget.callbacks
    /\ job_status' = [k \in DOMAIN job_status |->
                         CallbackRecord(job_status[k], payload)]
    /\ callbacks' = [callbacks EXCEPT ![job_id] = @ + 1]
    /\ response' = [op |-> "callback", job_id |-> 0, status_code |-> 200]
    /\ UNCHANGED <<task, requests, budget>>

\* colab_callback, lines 520-542: the payload is ingested.
colab_callback(job_id, payload) ==
    /\ Known(job_status, job_id)
    /\ ~CallbackRaises(payload)
    /\ job_id \in DOMAIN job_status
    /\ Ingested < budget.callbacks
    /\ job_status' = [job_status EXCEPT
                        ![job_id] = CallbackRecord(job_status[job_id], payload)]
    /\ callbacks' = [callbacks EXCEPT ![job_id] = @ + 1]
    /\ response' = [op |-> "callback", job_id |-> 0, status_code |-> 200]
    /\ UNCHANGED <<task, requests, budget>>

(* --------------------------- send_to_colab ----------------------------- *)

\* Lines 243-277: the task starts, writes "processing" and suspends on
\* entering the httpx client.
send_to_colab_start(job_id) ==
    /\ job_id \in DOMAIN task
    /\ task[job_id].pc = "scheduled"
    /\ job_status' = [job_status EXCEPT ![job_id] = StartRecord(@)]
    /\ task' = [task EXCEPT ![job_id].pc = "entered"]
    /\ response' = NoResponse
    /\ UNCHANGED <<callbacks, requests, budget>>

\* Lines 278-302, first iteration: the head of the loop and the request
\* for the first colour; the task suspends on client.post.
send_to_colab_request(job_id) ==
    /\ job_id \in DOMAIN task
    /\ task[job_id].pc = "entered"
    /\ job_status' = [job_status EXCEPT ![job_id] = LoopHeadRecord(@, 0)]
    /\ task' = [task EXCEPT ![job_id].pc = "awaiting"]
    /\ requests' = [requests EXCEPT ![job_id] = SendRequest(@, color_sequence[1])]
    /\ response' = NoResponse
    /\ UNCHANGED <<callbacks, budget>>

\* A task that asks again for the colour whose step failed.
AfterFailure_retry(idx) == "awaiting"

\* Where the task goes after the step at idx failed: the return of lines
\* 314, 326 and 347, or the end of a handler of lines 384-407.
AfterFailure(idx) == "done"

\* Where the task goes after the step at idx got its URL: to the request
\* for the next colour, or out of the loop.
AfterMerge(idx) == IF idx + 1 < NumColors THEN "awaiting" ELSE "closing"

\* Lines 304-372, then either 384-407 (an exception), or the return of a
\* failed step, or 278-302 of the next iteration (a colour is left), or
\* the end of the loop: the answer for the colour at idx arrives.
send_to_colab_step(job_id) ==
    /\ job_id \in DOMAIN task
    /\ task[job_id].pc = "awaiting"
    /\ \E resp \in Answers(budget.answers, color_sequence[task[job_id].idx + 1]) :
       LET t   == task[job_id]
           rec == job_status[job_id]
           out == StepOutcome(resp, color_sequence[t.idx + 1], t.input_image_url)
       IN  CASE out.kind = "raised" ->
                  /\ job_status' = [job_status EXCEPT
                                      ![job_id] = ExceptRecord(rec, out.exc)]
                  /\ task' = [task EXCEPT ![job_id].pc = AfterFailure(t.idx)]
             [] out.kind = "failed" ->
                  /\ job_status' = [job_status EXCEPT
                                      ![job_id] = FailRecord(rec, out.error, out.message)]
                  /\ task' = [task EXCEPT ![job_id].pc = AfterFailure(t.idx)]
             [] out.kind = "merged" ->
                  LET merged == MergeRecord(rec, t.idx, out.url, out.input_image_url)
                      next   == AfterMerge(t.idx)
                  IN  /\ job_status' = [job_status EXCEPT ![job_id] =
                             IF next = "awaiting"
                             THEN LoopHeadRecord(merged, t.idx + 1)
                             ELSE merged]
                      /\ task' = [task EXCEPT
                             ![job_id].pc = next,
                             ![job_id].idx = t.idx + 1,
                             ![job_id].aggregated_images =
                                 Put(@, color_sequence[t.idx + 1], out.url),
                             ![job_id].input_image_url = out.input_image_url]
    /\ requests' = [requests EXCEPT ![job_id] =
           IF task'[job_id].pc = "awaiting"
           THEN SendRequest(ReceiveResponse(@), color_sequence[task'[job_id].idx + 1])
           ELSE ReceiveResponse(@)]
    /\ response' = NoResponse
    /\ UNCHANGED <<callbacks, budget>>

\* Lines 374-382: the client is closed after the last colour and the
\* final result is written.
send_to_colab_complete(job_id) ==
    /\ job_id \in DOMAIN task
    /\ task[job_id].pc = "closing"
    /\ job_status' = [job_status EXCEPT ![job_id] =
           CompletedRecord(@, task[job_id].aggregated_images,
                           task[job_id].input_image_url)]
    /\ task' = [task EXCEPT ![job_id].pc = "done"]
    /\ response' = NoResponse
    /\ UNCHANGED <<callbacks, requests, budget>>

(* --------------------------- specification ----------------------------- *)

Next ==
    \/ \E job_id \in JobIds : upload_image(job_id)
    \/ upload_image_error
    \/ \E job_id \in JobIds : get_job_status(job_id)
    \/ \E job_id \in JobIds : colab_callback_unknown(job_id)
    \/ \E job_id \in JobIds, payload \in Payloads : colab_callback_error(job_id, payload)
    \/ \E job_id \in JobIds, payload \in Payloads : colab_callback(job_id, payload)
    \/ \E job_id \in JobIds : send_to_colab_start(job_id)
    \/ \E job_id \in JobIds : send_to_colab_request(job_id)
    \/ \E job_id \in JobIds : send_to_colab_step(job_id)
    \/ \E job_id \in JobIds : send_to_colab_complete(job_id)

Spec == Init /\ [][Next]_vars

(* ------------------------- reading a record ---------------------------- *)

\* The job ids that have a record.
Jobs == DOMAIN job_status

\* result.images of a record; a record without result has no mapping.
ImagesOf(rec) == IF Has(rec, "result") THEN rec["result"].images ELSE EmptyDict

\* The first n colours of the fixed order.
FirstColors(n) == {color_sequence[i] : i \in 1 .. n}

Terminal == {"completed", "failed"}

\* The pipeline of job j ran without a callback for j, up to this state.
NoCallback(j) == callbacks[j] = 0

(* ------------------------------ claims --------------------------------- *)

\* C1: a successful intake creates its record under a job id that had no
\* record, leaves every other record as it was, and directly afterwards
\* (the task has not started) a status query for the returned id answers
\* 200 with a record that is pending, at progress 0, without result and
\* without error.
C1_IntakeCreatesFreshPendingRecord ==
    [][ (response'.op = "upload" /\ response'.status_code = 200) =>
          LET j == response'.job_id
              a == StatusAnswer(job_status', j)
          IN  /\ j \notin DOMAIN job_status
              /\ \A k \in DOMAIN job_status :
                    k \in DOMAIN job_status' /\ job_status'[k] = job_status[k]
              /\ DOMAIN job_status' = DOMAIN job_status \cup {j}
              /\ task'[j].pc = "scheduled"
              /\ a.status_code = 200
              /\ a.body["status"] = "pending"
              /\ a.body["progress"] = 0
              /\ ~Has(a.body, "result")
              /\ ~Has(a.body, "error") ]_vars

\* C1 witness: an intake has just succeeded while another job, already
\* failed with a partial result, has its record.
C1_Witness ==
    /\ response.op = "upload" /\ response.status_code = 200
    /\ \E k \in Jobs :
          /\ k # response.job_id
          /\ job_status[k]["status"] = "failed"
          /\ DOMAIN ImagesOf(job_status[k]) # {}

\* The whole handler colab_callback for one request.
ColabCallbackRequest(job_id) ==
    \/ colab_callback_unknown(job_id)
    \/ \E payload \in Payloads : colab_callback_error(job_id, payload)
    \/ \E payload \in Payloads : colab_callback(job_id, payload)

\* C2: for a job id without a record, the status query and the callback
\* both answer 404, and the job store is left exactly as it was.
C2_UnknownJobIsNotFound ==
    [][ \A j \in JobIds :
          (j \notin DOMAIN job_status
             /\ (get_job_status(j) \/ ColabCallbackRequest(j)))
          => (response'.status_code = 404 /\ job_status' = job_status) ]_vars

\* C2 witness: a callback for an unknown id was answered 404 while the
\* store holds the record of another job with a result.
C2_Witness ==
    /\ response.op = "callback" /\ response.status_code = 404
    /\ \E k \in Jobs : DOMAIN ImagesOf(job_status[k]) # {}

\* Consecutive pairs of a sequence of progress values.
Chain(seq) == {<<seq[i], seq[i + 1]>> : i \in 1 .. (Len(seq) - 1)}

\* A step keeps the progress of every job without callbacks on seq: a new
\* record starts at the first value, every change goes from one value of
\* seq to the next, and a task that ended after all colours leaves the
\* last value.
ProgressFollows(seq) ==
    \A j \in DOMAIN job_status' :
        callbacks'[j] = 0 =>
            /\ task'[j].pc = "scheduled" => job_status'[j]["progress"] = seq[1]
            /\ (task'[j].pc = "done" /\ task'[j].idx = NumColors)
                  => job_status'[j]["progress"] = seq[Len(seq)]
            /\ (j \in DOMAIN job_status
                  /\ job_status'[j]["progress"] # job_status[j]["progress"])
                  => <<job_status[j]["progress"], job_status'[j]["progress"]>>
                        \in Chain(seq)

\* C3 as stated: without callbacks, the progress of a run whose seven steps
\* succeed takes exactly the values 0, 10, 20, ..., 90, 100 in this order.
C3_Original ==
    [][ProgressFollows(<<0, 10, 20, 30, 40, 50, 60, 70, 80, 90, 100>>)]_vars

\* C3 amended: without callbacks, the progress of a run whose seven steps
\* succeed takes exactly the values 0, 10, 20, ..., 80, 100 in this order
\* (the last step leaves 80, the final write sets 100; 90 is never taken).
C3_ProgressSequence ==
    [][ProgressFollows(<<0, 10, 20, 30, 40, 50, 60, 70, 80, 100>>)]_vars

\* C3 witness: a pipeline finished all seven steps without a callback.
C3_Witness ==
    \E j \in Jobs :
        /\ NoCallback(j) /\ task[j].pc = "done" /\ task[j].idx = NumColors
        /\ job_status[j]["progress"] = 100

\* C4: without callbacks, a task that ended on a failure of step k (idx =
\* k - 1 colours done) leaves status failed, an error, and result.images
\* with exactly the first k - 1 colours as keys.
C4_FailureKeepsPartialResult ==
    \A j \in Jobs :
        (NoCallback(j) /\ task[j].pc = "done" /\ task[j].idx < NumColors) =>
            /\ job_status[j]["status"] = "failed"
            /\ Has(job_status[j], "error") /\ job_status[j]["error"] # ""
            /\ DOMAIN ImagesOf(job_status[j]) = FirstColors(task[j].idx)

\* C4 witness: step 4 (yellow) timed out after white, red and orange.
C4_Witness ==
    \E j \in Jobs :
        /\ NoCallback(j) /\ task[j].pc = "done" /\ task[j].idx = 3
        /\ job_status[j]["error"] = "timeout"
        /\ DOMAIN ImagesOf(job_status[j]) = {"white", "red", "orange"}

\* C5: without callbacks, a task that ended after seven successful steps
\* leaves status completed, progress 100, no error, and result.images with
\* the URL the service returned for each of the seven colours.
C5_SuccessGivesFullResult ==
    \A j \in Jobs :
        (NoCallback(j) /\ task[j].pc = "done" /\ task[j].idx = NumColors) =>
            /\ job_status[j]["status"] = "completed"
            /\ job_status[j]["progress"] = 100
            /\ ~Has(job_status[j], "error")
            /\ DOMAIN ImagesOf(job_status[j]) = Colors
            /\ \A c \in Colors : /\ ImagesOf(job_status[j])[c] = ColabUrl(c)
                                 /\ ImagesOf(job_status[j])[c] # ""

\* C5 witness: a completed record with all seven colours and the
\* input_image_url of the first answer.
C5_Witness ==
    \E j \in Jobs :
        /\ NoCallback(j) /\ task[j].pc = "done"
        /\ job_status[j]["status"] = "completed"
        /\ Cardinality(DOMAIN ImagesOf(job_status[j])) = NumColors
        /\ job_status[j]["result"].input_image_url \in InputUrls("white")

\* C6 as stated: after colab_callback with a payload that has an error
\* key, whatever else it holds, the record of the (existing) job has
\* status failed and the payload's error.
C6_ErrorAlwaysFails ==
    [][ \A j \in DOMAIN job_status, p \in Payloads :
          (Has(p, "error") /\ (colab_callback(j, p) \/ colab_callback_error(j, p)))
          => /\ job_status'[j]["status"] = "failed"
             /\ Has(job_status'[j], "error")
             /\ job_status'[j]["error"] = p["error"] ]_vars

\* The images and input_image_url a payload carries, read off the payload
\* itself: those of its result object, none when it has no such object.
PayloadResult(p) ==
    LET has_obj == Has(p, "result") /\ p["result"].t = "obj"
    IN  [images          |-> IF has_obj /\ Has(p["result"].f, "images")
                             THEN p["result"].f["images"] ELSE EmptyDict,
         input_image_url |-> IF has_obj /\ Has(p["result"].f, "input_image_url")
                             THEN p["result"].f["input_image_url"] ELSE None]

\* C7: when a callback is ingested for a job that already ingested one,
\* the record's result afterwards is exactly the images and
\* input_image_url of this payload (empty and None when it has no result):
\* nothing of the earlier payload is kept.
C7_SecondCallbackReplacesResult ==
    [][ \A j \in DOMAIN job_status, p \in Payloads :
          (callbacks[j] >= 1 /\ colab_callback(j, p))
          => job_status'[j]["result"] = PayloadResult(p) ]_vars

\* C7 witness: two callbacks were ingested before the task started; the
\* record holds the purple URL only, no white URL and no input_image_url.
C7_Witness ==
    \E j \in Jobs :
        /\ callbacks[j] = 2 /\ task[j].pc = "scheduled"
        /\ job_status[j]["result"] =
              [images |-> ("purple" :> CallbackUrl("purple")), input_image_url |-> None]

\* Every mapping of result.images of job j before the step is there, with
\* the same URL, after it.
ImagesKept(j) ==
    \A c \in DOMAIN ImagesOf(job_status[j]) :
        /\ c \in DOMAIN ImagesOf(job_status'[j])
        /\ ImagesOf(job_status'[j])[c] = ImagesOf(job_status[j])[c]

\* C8 as stated: every step of the system (pipeline or callback) keeps
\* every colour-to-URL mapping of every job.
C8_Original ==
    [][ \A j \in DOMAIN job_status : ImagesKept(j) ]_vars

\* C8 amended: every step keeps every colour-to-URL mapping of every job
\* for which no callback has been ingested (partial writes, the final
\* write and failures of the pipeline never retract a mapping).
C8_PipelineKeepsImages ==
    [][ \A j \in DOMAIN job_status : callbacks'[j] = 0 => ImagesKept(j) ]_vars

\* C8 witness: a pipeline failed at its sixth step without a callback and
\* the five mappings merged before are in the record.
C8_Witness ==
    \E j \in Jobs :
        /\ NoCallback(j) /\ task[j].pc = "done"
        /\ job_status[j]["status"] = "failed"
        /\ Cardinality(DOMAIN ImagesOf(job_status[j])) = 5

\* The changes of status C9 allows.
StatusChanges ==
    { <<"pending", "processing">>, <<"processing", "completed">>,
      <<"pending", "failed">>, <<"processing", "failed">> }

\* A step changes the status of job j along StatusChanges only.
StatusChangeAllowed(j) ==
    job_status'[j]["status"] # job_status[j]["status"]
    => <<job_status[j]["status"], job_status'[j]["status"]>> \in StatusChanges

\* C9 as stated: in every behaviour every change of a job's status is one
\* of pending -> processing, processing -> completed, pending -> failed,
\* processing -> failed.
C9_Original ==
    [][ \A j \in DOMAIN job_status : StatusChangeAllowed(j) ]_vars

\* C9 amended: the same, for every job for which no callback has been
\* ingested.
C9_StatusChangesWithoutCallback ==
    [][ \A j \in DOMAIN job_status : callbacks'[j] = 0 => StatusChangeAllowed(j) ]_vars

\* C9 witness: two jobs ran side by side without callbacks, one completed
\* and one failed.
C9_Witness ==
    \E j, k \in Jobs :
        /\ NoCallback(j) /\ NoCallback(k)
        /\ job_status[j]["status"] = "completed"
        /\ job_status[k]["status"] = "failed"

\* A step in which the record of job j changes and no callback for j is
\* ingested: a write of the task of j.
TaskWrites(j) ==
    callbacks'[j] = callbacks[j] /\ job_status'[j] # job_status[j]

\* C10 as stated: once the status of a job is completed or failed, whoever
\* wrote it, the task of the job writes nothing more to the record.
C10_Original ==
    [][ \A j \in DOMAIN job_status :
          job_status[j]["status"] \in Terminal => ~TaskWrites(j) ]_vars

\* C10 amended: a write of the task that sets completed or failed (the
\* final write, or the write of a failed step) is its last: the task has
\* ended with it and writes nothing more to the record.
C10_TaskEndsWithItsTerminalWrite ==
    [][ \A j \in DOMAIN job_status :
          /\ ( /\ TaskWrites(j)
               /\ task[j].pc \in {"awaiting", "closing"}
               /\ task'[j].idx = task[j].idx )
             => ( /\ job_status'[j]["status"] \in Terminal
                  /\ task'[j].pc = "done" )
          /\ task[j].pc = "done" => ~TaskWrites(j) ]_vars

\* C10 witness: a callback was ingested while the task ran, and the task
\* later recorded its own failure and ended.
C10_Witness ==
    \E j \in Jobs :
        /\ callbacks[j] = 1 /\ task[j].pc = "done"
        /\ job_status[j]["status"] = "failed"
        /\ job_status[j]["error"] = "connect failed"
        /\ job_status[j]["progress"] = 100

\* The four values spec and code name for the status of a record.
Statuses == {"pending", "processing", "completed", "failed"}

\* C11 as stated: in every reachable state a record holds an error only
\* if its status is failed, whatever pipeline writes and callbacks came
\* before (a callback without error after a failure included).
C11_ErrorOnlyWhenFailed ==
    \A j \in Jobs : Has(job_status[j], "error") => job_status[j]["status"] = "failed"

\* C12 as stated: in every reachable state the status of every record is
\* one of pending, processing, completed, failed, whatever the payloads of
\* the callbacks held in their status field.
C12_StatusIsOneOfFour ==
    \A j \in Jobs : job_status[j]["status"] \in Statuses

\* A step leaves job j at status processing and lowers its progress.
ProgressDrops(j) ==
    /\ job_status[j]["status"] = "processing"
    /\ job_status'[j]["status"] = "processing"
    /\ job_status'[j]["progress"] < job_status[j]["progress"]

\* C13 as stated: no step that leaves a job at status processing lowers
\* its progress, in any interleaving of pipeline steps and callbacks.
C13_Original ==
    [][ \A j \in DOMAIN job_status : ~ProgressDrops(j) ]_vars

\* C13 amended: no step that leaves a job at status processing lowers its
\* progress, if the step ingests a callback for the job or no callback
\* was ingested for the job before it.
C13_ProgressNonDecreasing ==
    [][ \A j \in DOMAIN job_status :
          (callbacks[j] = 0 \/ callbacks'[j] # callbacks[j]) => ~ProgressDrops(j) ]_vars

\* C13 witness: a job at status processing whose task has merged four
\* colours and waits for the fifth, and whose one callback left it at
\* status processing with progress 100.
C13_Witness ==
    \E j \in Jobs :
        /\ callbacks[j] = 1 /\ task[j].pc = "awaiting" /\ task[j].idx = 4
        /\ job_status[j]["status"] = "processing"
        /\ job_status[j]["progress"] = 100

\* C14 as stated: for every existing job and every payload, the record
\* directly after colab_callback has progress 100, and status completed
\* when the payload has neither a status nor an error.
C14_CallbackSetsProgress100 ==
    [][ \A j \in DOMAIN job_status, p \in Payloads :
          (colab_callback(j, p) \/ colab_callback_error(j, p))
          => /\ job_status'[j]["progress"] = 100
             /\ (~Has(p, "status") /\ ~Has(p, "error"))
                   => job_status'[j]["status"] = "completed" ]_vars

(* ------------------------ fair scheduling ------------------------------ *)

\* The event loop runs every task that can run, and every client.post
\* returns or raises (at the latest when COLAB_TIMEOUT is over): a step
\* of a task that stays possible is taken.
Fairness ==
    \A job_id \in JobIds :
        /\ WF_vars(send_to_colab_start(job_id))
        /\ WF_vars(send_to_colab_request(job_id))
        /\ WF_vars(send_to_colab_step(job_id))
        /\ WF_vars(send_to_colab_complete(job_id))

FairSpec == Init /\ [][Next]_vars /\ Fairness

\* The task of job j has ended and the record is as a terminal write
\* leaves it: completed, or failed with an error.
EndedWithTerminalWrite(j) ==
    /\ j \in DOMAIN task
    /\ task[j].pc = "done"
    /\ \/ job_status[j]["status"] = "completed"
       \/ /\ job_status[j]["status"] = "failed"
          /\ Has(job_status[j], "error")
          /\ job_status[j]["error"] # ""

\* C15: under fair scheduling, with every external call returning or
\* raising, the task of every job that intake created ends, and the step
\* that ends it leaves the record completed, or failed with an error:
\* whatever the service answered, and whatever callbacks came in between.
C15_TaskEndsWithTerminalWrite ==
    \A j \in JobIds :
        (j \in DOMAIN task /\ task[j].pc # "done") ~> EndedWithTerminalWrite(j)

\* C15 witness: a task ended on a request error at its third step, the
\* record is failed with the handler's error.
C15_Witness ==
    \E j \in Jobs :
        /\ task[j].pc = "done" /\ task[j].idx = 2
        /\ job_status[j]["status"] = "failed"
        /\ job_status[j]["error"] = "request error"

\* result.input_image_url of a record; None for a record without result.
InputUrlOf(rec) ==
    IF Has(rec, "result") THEN rec["result"].input_image_url ELSE None

\* C16 as stated: without callbacks, result.input_image_url is what the
\* answer of the first successful step carried (None when it carried
\* none) and no later step changes it: it is never the value of a later
\* answer.
C16_InputUrlFromFirstStepOnly ==
    [][ \A j \in DOMAIN job_status :
          (callbacks'[j] = 0 /\ task[j].idx >= 1)
          => /\ InputUrlOf(job_status[j]) \in {None} \cup InputUrls("white")
             /\ InputUrlOf(job_status'[j]) = InputUrlOf(job_status[j]) ]_vars

\* The order of the colours as the spec gives it.
RequestOrder == <<"white", "red", "orange", "yellow", "green", "blue", "purple">>

\* C17: the requests of a job are made in the order white, red, orange,
\* yellow, green, blue, purple; at most one of them is in flight; and
\* when the request for a colour has been made, every colour before it
\* has been answered and merged (into the task's map, and into the
\* record's result.images when no callback replaced it).
C17_RequestsInOrderOneAtATime ==
    \A j \in Jobs :
        LET log == requests[j].log
        IN  /\ requests[j].in_flight <= 1
            /\ Len(log) <= Len(RequestOrder)
            /\ log = SubSeq(RequestOrder, 1, Len(log))
            /\ \A i \in 1 .. (Len(log) - 1) :
                  /\ log[i] \in DOMAIN task[j].aggregated_images
                  /\ NoCallback(j) => log[i] \in DOMAIN ImagesOf(job_status[j])

\* C17 witness: the request for yellow is in flight after white, red and
\* orange were asked for and merged.
C17_Witness ==
    \E j \in Jobs :
        /\ requests[j] = [log |-> <<"white", "red", "orange", "yellow">>, in_flight |-> 1]
        /\ DOMAIN ImagesOf(job_status[j]) = {"white", "red", "orange"}

\* C18: a job never has more than one request per colour (seven at
\* most), and a step that fails ends the requests of the job: the failed
\* colour is the last one asked for, no request is in flight, and no
\* request is made once the task has ended.
C18_NoRetryNoSkip ==
    [][ \A j \in DOMAIN job_status' :
          LET log == requests'[j].log
          IN  /\ Len(log) <= NumColors
              /\ \A a, b \in 1 .. Len(log) : log[a] = log[b] => a = b
              /\ (task'[j].pc = "done" /\ task'[j].idx < NumColors)
                    => /\ Len(log) = task'[j].idx + 1
                       /\ requests'[j].in_flight = 0
              /\ (j \in DOMAIN job_status /\ task[j].pc = "done")
                    => requests'[j] = requests[j] ]_vars

\* C18 witness: the request for green got an answer without a URL; five
\* requests were made, the record is failed and holds four colours.
C18_Witness ==
    \E j \in Jobs :
        /\ task[j].pc = "done" /\ NoCallback(j)
        /\ requests[j] = [log |-> <<"white", "red", "orange", "yellow", "green">>,
                          in_flight |-> 0]
        /\ job_status[j]["error"] = "no url green"
        /\ DOMAIN ImagesOf(job_status[j]) = {"white", "red", "orange", "yellow"}

\* C19: without callbacks, from the first request of a job until the
\* final write of its pipeline, progress = 10 + 10 * (number of keys of
\* result.images) in every state: a merge and the advance of the progress
\* are never seen apart, and the write of a failure keeps the relation.
C19_ProgressCountsImages ==
    \A j \in Jobs :
        ( /\ NoCallback(j)
          /\ Len(requests[j].log) >= 1
          /\ ~(task[j].pc = "done" /\ task[j].idx = NumColors) )
        => job_status[j]["progress"]
              = 10 + 10 * Cardinality(DOMAIN ImagesOf(job_status[j]))

\* C19 witness: the seventh colour is merged and the final write has not
\* been made: progress 80 with seven keys.
C19_Witness ==
    \E j \in Jobs :
        /\ NoCallback(j) /\ task[j].pc = "closing"
        /\ job_status[j]["progress"] = 80
        /\ DOMAIN ImagesOf(job_status[j]) = Colors

\* A step taken for job j: a step of its pipeline (its start, a request,
\* an answer merged or failed, its completion), a callback or a status
\* query addressed to it.
ActionFor(j) ==
    \/ send_to_colab_start(j)
    \/ send_to_colab_request(j)
    \/ send_to_colab_step(j)
    \/ send_to_colab_complete(j)
    \/ ColabCallbackRequest(j)
    \/ get_job_status(j)

\* A step removes or changes the record of a job other than j.
TouchesOtherThan(j) ==
    \E k \in DOMAIN job_status \ {j} :
        k \notin DOMAIN job_status' \/ job_status'[k] # job_status[k]

\* C20: with several jobs in the store, a step taken for one job leaves
\* the record of every other job as it was (stated the other way round:
\* a step that touches the record of another job is no step for j).
C20_OtherRecordsUnchanged ==
    [][ \A j \in JobIds : TouchesOtherThan(j) => ~ActionFor(j) ]_vars

\* C20 witness: two jobs whose tasks run; one was failed by a callback
\* with an error while it waited for an answer, the other is still
\* processing without a result.
C20_Witness ==
    \E j, k \in Jobs :
        /\ j # k
        /\ task[j].pc = "awaiting" /\ task[k].pc = "awaiting"
        /\ callbacks[j] = 1
        /\ job_status[j]["status"] = "failed" /\ job_status[j]["progress"] = 100
        /\ job_status[k]["status"] = "processing" /\ job_status[k]["progress"] = 10
        /\ ~Has(job_status[k], "result")

\* C21 as stated: in every reachable state a record whose status is
\* completed has progress 100, in any interleaving of pipeline steps and
\* callbacks of the job.
C21_Original ==
    \A j \in Jobs :
        job_status[j]["status"] = "completed" => job_status[j]["progress"] = 100

\* A step that ingests a callback for job j, or the final write of its
\* task.
CallbackOrFinalWrite(j) ==
    /\ j \in DOMAIN job_status
    /\ \/ callbacks'[j] # callbacks[j]
       \/ task[j].pc = "closing" /\ task'[j].pc = "done"

\* C21 amended: a record whose status is completed has progress 100 in
\* every state of a job for which no callback was ingested, and directly
\* after every callback and after the final write of the pipeline,
\* whatever came before.
C21_CompletedHasProgress100 ==
    [][ \A j \in DOMAIN job_status' :
          (callbacks'[j] = 0 \/ CallbackOrFinalWrite(j))
          => (job_status'[j]["status"] = "completed"
                => job_status'[j]["progress"] = 100) ]_vars

\* C21 witness: a callback marked the job completed while its task waits
\* for the answer to its fourth request.
C21_Witness ==
    \E j \in Jobs :
        /\ callbacks[j] = 1 /\ task[j].pc = "awaiting" /\ task[j].idx = 3
        /\ job_status[j]["status"] = "completed"
        /\ job_status[j]["progress"] = 100

\* C22: the final write of a task that got all seven URLs leaves status
\* completed and result.images equal to the seven URLs the task itself
\* received, one per colour, whatever callbacks were ingested while it
\* ran: no URL of a callback is in the final result.
C22_FinalResultIsThePipelines ==
    [][ \A j \in DOMAIN job_status :
          (task[j].pc = "closing" /\ task'[j].pc = "done")
          => /\ job_status'[j]["status"] = "completed"
             /\ ImagesOf(job_status'[j]) = task[j].aggregated_images
             /\ DOMAIN ImagesOf(job_status'[j]) = Colors
             /\ \A c \in Colors : ImagesOf(job_status'[j])[c] = ColabUrl(c) ]_vars

\* C22 witness: two callbacks were ingested before the final write of a
\* task that got all seven URLs; the record holds the final write.
C22_Witness ==
    \E j \in Jobs :
        /\ callbacks[j] = 2 /\ task[j].pc = "done" /\ task[j].idx = NumColors
        /\ job_status[j]["message"] = "all colours created"
        /\ job_status[j]["status"] = "completed"
        /\ DOMAIN ImagesOf(job_status[j]) = Colors

====
